---- MODULE Spec2Model ----
(***************************************************************************)
(* A model of the PaperPal translator (oxhorse61/AITranslator):            *)
(*   - retryOperation, the retry wrapper of services/geminiService.ts;     *)
(*   - the result pipeline and history of components/TranslationPanel.tsx, *)
(*     fed by the artifacts components/PDFViewer.tsx emits;                *)
(*   - LiveSession and the voice assistant of components/LiveAssistant.tsx;*)
(*   - Read Aloud (handlePlayAudio and generateSpeech).                    *)
(* JavaScript objects are functions from key to value: a key that is not   *)
(* in the domain reads as undefined.  A message is the sequence of its     *)
(* words, and String.prototype.includes is membership of a word.           *)
(***************************************************************************)
EXTENDS Integers, Sequences, FiniteSets, TLC

VARIABLES
    rcall,              \* the retryOperation call under study: its frame and what it observed
    now,                \* the last value Date.now() returned
    apiKey,             \* TRUE when the environment holds an API key
    history,            \* TranslationPanel: useState history (newest first)
    storage,            \* localStorage item 'paperpal_history'
    loading,            \* TranslationPanel: useState loading
    activeId,           \* TranslationPanel: useState activeId
    deepDiveLoadingId,  \* TranslationPanel: useState deepDiveLoadingId
    runs,               \* the processNewSelection closures, in arrival order
    dives,              \* the handleDeepDive closures, in start order
    cleared,            \* TRUE once clearHistory has emptied the history
    lastUpdate,         \* whether the last setHistory updater found the record it addressed
    mode,               \* PDFViewer: useState mode
    isSelecting,        \* InteractivePage: useState isSelecting
    startPos,           \* InteractivePage: useState startPos
    currentPos,         \* InteractivePage: useState currentPos
    showTextTooltip,    \* InteractivePage: useState showTextTooltip
    selectedText,       \* InteractivePage: useState selectedText
    selection,          \* window.getSelection()
    canvas,             \* the page's canvas: 0 when not painted yet, else its backing scale
    emitted,            \* the artifacts handed to onSelection, in order
    lastEvent,          \* the branch the last handler took, when it ended a gesture
    dragStale,          \* the mode was switched since the anchor of the drag was recorded
    textStale,          \* the mode was switched since the selected text was recorded
    mounted,            \* the start of the panel: its phase and what the history initializer returned
    sessions,           \* the LiveSession objects constructed so far
    opened,             \* the live sessions ai.live.connect has opened so far
    isOpen,             \* App: useState isLiveOpen, the isOpen prop of LiveAssistant
    liveSessionRef,     \* LiveAssistant: liveSessionRef.current
    status,             \* LiveAssistant: useState status
    isConnected,        \* LiveAssistant: useState isConnected
    cleanupIsOpen,      \* the isOpen captured by the cleanup of the last effect run
    audioPlayingId,     \* TranslationPanel: useState audioPlayingId
    speeches            \* the calls of handlePlayAudio, in order

retryVars == <<rcall>>
panelVars == <<now, apiKey, history, storage, loading, activeId, deepDiveLoadingId, runs, dives, cleared, lastUpdate>>
captureVars == <<mode, isSelecting, startPos, currentPos, showTextTooltip, selectedText, selection, canvas, emitted, lastEvent, dragStale, textStale>>
loadVars == <<mounted>>
sessionVars == <<sessions, opened, isOpen, liveSessionRef, status, isConnected, cleanupIsOpen>>
audioVars == <<audioPlayingId, speeches>>
vars == <<rcall, now, apiKey, history, storage, loading, activeId, deepDiveLoadingId, runs, dives, cleared, lastUpdate,
          mode, isSelecting, startPos, currentPos, showTextTooltip, selectedText, selection, canvas, emitted, lastEvent, dragStale, textStale, mounted,
          sessions, opened, isOpen, liveSessionRef, status, isConnected, cleanupIsOpen, audioPlayingId, speeches>>

(***************************************************************************)
(* Bounds of the model.                                                    *)
(***************************************************************************)
MaxRetriesArg == 3      \* retryOperation is studied with retries in 0..MaxRetriesArg
MaxRuns == 2            \* selections delivered to the panel
MaxDives == 1           \* deep-dive requests started
MaxDiveCalls == 3       \* deep-dive requests started over a loaded history
MaxCalls == 4           \* connect() and disconnect() calls on one session controller
MaxSessions == 3        \* LiveSession objects the assistant constructs
MaxPlays == 3           \* calls of handlePlayAudio
MaxDt == 1              \* milliseconds the clock may advance between two emissions
MaxEmitted == 2
MaxStored == 2

(***************************************************************************)
(* JavaScript values.                                                      *)
(***************************************************************************)
\* A string is the sequence of its fragments, cut so that every marker the code
\* searches for is a fragment of its own; "" is the empty sequence.
\* A number | null state holds <<>> for null and <<n>> for the number n.
null == <<>>
Undefined == <<"<undefined>">>

Has(o, k) == k \in DOMAIN o

Range(s) == {s[i] : i \in 1..Len(s)}

\* String.prototype.includes on a message that is a sequence of words
includes(message, marker) == marker \in Range(message)

(***************************************************************************)
(* The errors a provider call may throw.                                   *)
(***************************************************************************)
ErrStatus429 == [status |-> 429, message |-> <<"Too", "Many", "Requests">>]
ErrQuota == [message |-> <<"You", "exceeded", "your", "quota">>]
ErrExhausted == [message |-> <<"Resource", "has", "been", "exhausted">>]
ErrCode429Msg == [message |-> <<"got", "status:", "429">>]
ErrServer == [status |-> 500, message |-> <<"Internal", "error">>]
ErrNetwork == [message |-> <<"fetch", "failed">>]
ErrBare == [status |-> 429]

TransientErrors == {ErrStatus429, ErrQuota, ErrExhausted, ErrCode429Msg, ErrBare}
TerminalErrors == {ErrServer, ErrNetwork}
Errors == TransientErrors \cup TerminalErrors

\* error.message?.includes(marker)
messageIncludes(error, marker) == Has(error, "message") /\ includes(error.message, marker)

isQuotaError_Always(error) == TRUE

isQuotaError(error) ==
    \/ messageIncludes(error, "429")
    \/ messageIncludes(error, "quota")
    \/ messageIncludes(error, "exhausted")
    \/ (Has(error, "status") /\ error.status = 429)

(***************************************************************************)
(* retryOperation(operation, retries, delay): a frame is the pending call. *)
(*   pc = "calling"  : await operation() is pending                        *)
(*   pc = "waiting"  : the backoff timer of `delay` ms is pending          *)
(*   pc = "resolved" / "rejected" : the returned promise has settled; the  *)
(*                     frame is gone, and its counters with it             *)
(***************************************************************************)
DefaultRetries == 3
DefaultDelay == 2000

settled(pc) == [pc |-> pc, retries |-> 0, delay |-> 0]

retryOperation(retries, delay) == [pc |-> "calling", retries |-> retries, delay |-> delay]

shouldRetry_OffByOne(frame, error) == frame.retries > 1 /\ isQuotaError(error)

shouldRetry(frame, error) == frame.retries > 0 /\ isQuotaError(error)

\* the catch block: operation() rejected with `error`
retryCatch(frame, error) ==
    IF shouldRetry(frame, error)
    THEN [frame EXCEPT !.pc = "waiting"]
    ELSE settled("rejected")

nextDelay_Constant(delay) == delay

nextDelay(delay) == delay * 2

\* the timer fired: return retryOperation(operation, retries - 1, delay * 2)
retryResume(frame) == retryOperation(frame.retries - 1, nextDelay(frame.delay))

\* return await operation()
retryReturn(frame) == settled("resolved")

\* retryOperation run to its end: the outcomes its promise can settle with when
\* every invocation of the operation has one of `outcomes`. The recursion is the
\* code's: a success is returned, a failure is rethrown or, after the wait, the
\* result is that of retryOperation(operation, retries - 1, delay * 2). The
\* frames in between touch nothing but their own counters.
RECURSIVE retryResults(_, _)
retryResults(frame, outcomes) ==
    UNION {IF o.ok
           THEN {o}
           ELSE IF retryCatch(frame, o.error).pc = "waiting"
                THEN retryResults(retryResume(retryCatch(frame, o.error)), outcomes)
                ELSE {o} : o \in outcomes}

(***************************************************************************)
(* The retry wrapper on its own: one call retryOperation(operation,        *)
(* maxRetries, initialDelay) of an operation whose every invocation either *)
(* resolves with a value or rejects with an error.  rcall records the      *)
(* arguments, the pending frame, the outcome of every invocation of the    *)
(* operation, every delay handed to setTimeout, and what the call threw or *)
(* returned.                                                               *)
(***************************************************************************)
Delays == {1, DefaultDelay}
Values == {"value"}

RetryIdle == [frame |-> settled("idle"),
              maxRetries |-> 0, initialDelay |-> 0,
              outcomes |-> <<>>, waits |-> <<>>, thrown |-> <<>>, returned |-> <<>>]

RetryStart(retries, delay) ==
    [frame |-> retryOperation(retries, delay),
     maxRetries |-> retries, initialDelay |-> delay,
     outcomes |-> <<>>, waits |-> <<>>, thrown |-> <<>>, returned |-> <<>>]

InitRetry == rcall \in {RetryStart(r, d) : r \in 0..MaxRetriesArg, d \in Delays}

\* return await operation(): the operation resolved
OperationResolves ==
    /\ rcall.frame.pc = "calling"
    /\ \E v \in Values :
        rcall' = [rcall EXCEPT !.frame = retryReturn(@),
                               !.outcomes = Append(@, [ok |-> TRUE, value |-> v]),
                               !.returned = Append(@, v)]

\* catch (error): the operation rejected; wait and retry, or rethrow
OperationRejects ==
    /\ rcall.frame.pc = "calling"
    /\ \E e \in Errors :
        LET after == retryCatch(rcall.frame, e) IN
        rcall' = [rcall EXCEPT !.frame = after,
                               !.outcomes = Append(@, [ok |-> FALSE, error |-> e]),
                               !.waits = IF after.pc = "waiting" THEN Append(@, rcall.frame.delay) ELSE @,
                               !.thrown = IF after.pc = "rejected" THEN Append(@, e) ELSE @]

\* the setTimeout of the backoff fired: the recursive call invokes the operation again
TimerFires ==
    /\ rcall.frame.pc = "waiting"
    /\ rcall' = [rcall EXCEPT !.frame = retryResume(@)]

NextRetry ==
    \/ OperationResolves /\ UNCHANGED <<panelVars, captureVars, loadVars, sessionVars, audioVars>>
    \/ OperationRejects /\ UNCHANGED <<panelVars, captureVars, loadVars, sessionVars, audioVars>>
    \/ TimerFires /\ UNCHANGED <<panelVars, captureVars, loadVars, sessionVars, audioVars>>

(***************************************************************************)
(* The provider operations of geminiService.ts, as what one invocation of  *)
(* the wrapped operation makes of the provider's response.  An outcome is  *)
(* [ok |-> TRUE, value |-> v] or [ok |-> FALSE, error |-> e].              *)
(***************************************************************************)
ErrKeyMissing == [message |-> <<"API Key missing">>]
ErrNoResponse == [message |-> <<"No response from model">>]

\* the errors the provider raises in the pipeline
ProviderErrors == {ErrStatus429, ErrQuota, ErrServer}

\* the markdown fences a response may wrap its JSON in
FenceOpen == "<fence json>"
FenceClose == "<fence>"

\* text.replace(fences, '').trim()
cleanJson(text) == SelectSeq(text, LAMBDA frag : frag \notin {FenceOpen, FenceClose})

\* the JSON documents the provider answers with, and the value each parses to
JsonDoc == "{originalText:source,translatedText:target}"
JsonValue == [originalText |-> <<"source">>, translatedText |-> <<"target">>]
\* the answer for a region without text, and an answer that is not an object
JsonDocBlank == "{originalText:,translatedText:}"
JsonValueBlank == [originalText |-> <<>>, translatedText |-> <<>>]
JsonDocNull == "null"
JsonNull == [json |-> "null"]

JSONparses(text) == text \in {<<JsonDoc>>, <<JsonDocBlank>>, <<JsonDocNull>>}
JSONparse(text) ==
    IF text = <<JsonDoc>> THEN JsonValue
    ELSE IF text = <<JsonDocBlank>> THEN JsonValueBlank
    ELSE JsonNull

TranslateResponses == {<<>>, <<"translation">>}
AnalyzeResponses ==
    {<<>>, <<JsonDoc>>, <<FenceOpen, JsonDoc, FenceClose>>, <<"I cannot read this image">>,
     <<JsonDocBlank>>, <<JsonDocNull>>}
ExplainResponses == {[text |-> <<>>, chunks |-> <<>>],
                     [text |-> <<"explanation">>,
                      chunks |-> <<[web |-> [uri |-> "u1", title |-> "t1"]], [web |-> [uri |-> "u2"]]>>]}

\* return response.text || "Translation failed."
translateOperation(text) ==
    [ok |-> TRUE, value |-> IF text = <<>> THEN <<"Translation ", "failed", ".">> ELSE text,
     answer |-> <<text>>]

\* the operation of analyzeImageRegion: lines 101-113
analyzeOperation(text) ==
    IF text = <<>>
    THEN [ok |-> FALSE, error |-> ErrNoResponse, answer |-> <<text>>]
    ELSE IF JSONparses(cleanJson(text))
         THEN [ok |-> TRUE, value |-> JSONparse(cleanJson(text)), answer |-> <<text>>]
         ELSE [ok |-> TRUE, value |-> [originalText |-> <<"OCR Output (Raw)">>, translatedText |-> text],
               answer |-> <<text>>]

\* chunks.forEach: keep the chunks with web.uri and web.title
groundingSources(chunks) ==
    LET kept == SelectSeq(chunks, LAMBDA c : Has(c, "web") /\ Has(c.web, "uri") /\ Has(c.web, "title"))
    IN [i \in 1..Len(kept) |-> [title |-> kept[i].web.title, uri |-> kept[i].web.uri]]

\* the operation of explainWithSearch: lines 131-145
explainOperation(response) ==
    [ok |-> TRUE,
     value |-> [explanation |-> IF response.text = <<>>
                                THEN <<"Could not generate explanation.">>
                                ELSE response.text,
                sources |-> groundingSources(response.chunks)]]

(***************************************************************************)
(* The history of TranslationPanel and its persisted copy.                 *)
(***************************************************************************)
TextKeys == {"originalText", "translatedText", "imageUrl", "explanation"}

stringifyRecord_Lossy(item) ==
    [k \in DOMAIN item \ {"explanation", "imageUrl"} |-> item[k]]

\* JSON.stringify of one record: a key whose value is undefined is left out
stringifyRecord(item) ==
    LET keys == {k \in DOMAIN item : ~(k \in TextKeys /\ item[k] = Undefined)}
    IN [k \in keys |-> item[k]]

\* JSON.stringify(history)
JSONstringify(h) == [kind |-> "json", value |-> [i \in 1..Len(h) |-> stringifyRecord(h[i])]]

\* a record a previous session left in localStorage
OldRecord ==
    [id |-> 1, type |-> "text", originalText |-> <<"old source">>,
     translatedText |-> <<"old target">>, timestamp |-> 1]

StorageAbsent == [kind |-> "absent"]
StorageGarbage == [kind |-> "garbage"]
StorageEmpty == [kind |-> "empty"]
PersistedValues == {StorageAbsent, StorageGarbage, JSONstringify(<<>>), JSONstringify(<<OldRecord>>)}

\* JSON text whose value is not an array: null, a number, an object
JsonNotArray == {[kind |-> "jsonvalue", text |-> v] : v \in {"null", "7", "{}"}}

\* a value of JavaScript, told apart by Array.isArray
Array(v) == [array |-> TRUE, value |-> v]
NotArray(v) == [array |-> FALSE, json |-> v]

\* the initializer of useState history, lines 12-20: saved ? JSON.parse(saved) : [],
\* and [] when JSON.parse throws
historyInitializer(saved) ==
    IF saved.kind \in {"absent", "empty"} THEN Array(<<>>)
    ELSE IF saved.kind = "json" THEN Array(saved.value)
    ELSE IF saved.kind = "jsonvalue" THEN NotArray(saved.text)
    ELSE Array(<<>>)

\* the initializer of useState history: lines 12-20
loadHistory(saved) == historyInitializer(saved).value

\* the panel before its first render
Unmounted == [phase |-> "start", history |-> Array(<<>>)]
LoadAtRest == mounted = Unmounted

prepend_AtEnd(entry, h) == Append(h, entry)

\* prev => [newEntry, ...prev]
prepend(entry, h) == <<entry>> \o h

updateById_Upsert(h, id, patch) ==
    IF \E i \in 1..Len(h) : h[i].id = id
    THEN [i \in 1..Len(h) |-> IF h[i].id = id THEN patch @@ h[i] ELSE h[i]]
    ELSE <<patch @@ [id |-> id]>> \o h

updateById_All(h, id, patch) == [i \in 1..Len(h) |-> patch @@ h[i]]

\* prev => prev.map(item => item.id === id ? { ...item, ...patch } : item)
updateById(h, id, patch) ==
    [i \in 1..Len(h) |-> IF h[i].id = id THEN patch @@ h[i] ELSE h[i]]

HasId(h, id) == \E i \in 1..Len(h) : h[i].id = id

newEntry_NoPlaceholder(id, type, content, timestamp) ==
    [id |-> id, type |-> type,
     originalText |-> content,
     translatedText |-> <<>>,
     imageUrl |-> IF type = "image" THEN content ELSE Undefined,
     timestamp |-> timestamp]

\* the placeholder entry: lines 51-58
newEntry(id, type, content, timestamp) ==
    [id |-> id, type |-> type,
     originalText |-> IF type = "text" THEN content ELSE <<"Reading text from image...">>,
     translatedText |-> <<>>,
     imageUrl |-> IF type = "image" THEN content ELSE Undefined,
     timestamp |-> timestamp]

SentinelFailed == <<"Translation ", "failed", ". Please try again.">>
SentinelLimit == <<"Usage ", "limit", " reached. Please wait a moment and try again.">>

\* the catch block of processNewSelection: lines 85-90
errorMessage(e) ==
    IF messageIncludes(e, "429") \/ messageIncludes(e, "quota") \/ messageIncludes(e, "exhausted")
    THEN SentinelLimit
    ELSE SentinelFailed

\* the toolbar of a record is rendered: line 214
toolbarShown(item) ==
    ~includes(item.translatedText, "failed") /\ ~includes(item.translatedText, "limit")

\* a truthy item.explanation
explained(item) == Has(item, "explanation") /\ item.explanation # <<>>

deepDiveOffered_IgnoresExplanation(item) ==
    toolbarShown(item) /\ deepDiveLoadingId # <<item.id>>

\* the Explain button is rendered and enabled: lines 214, 234-237
deepDiveOffered(item) ==
    toolbarShown(item) /\ ~explained(item) /\ deepDiveLoadingId # <<item.id>>

\* the spinner of a record is rendered: line 201
spinnerShown(item) == loading /\ activeId = <<item.id>> /\ item.translatedText = <<>>

\* lastUpdate: "miss" when the last updater of the history was a map by id that
\* found no record with its id, "applied" otherwise
NoUpdate == "applied"
Addressed(h, id) == IF HasId(h, id) THEN "applied" ELSE "miss"

(***************************************************************************)
(* The panel: arrivals of selections, the pipeline runs, deep dives, clear.*)
(***************************************************************************)
TextPayloads == {<<"neural network">>}
ImagePayloads == {<<"data:image/png;base64,AAAA">>}
Payloads(type) == IF type = "text" THEN TextPayloads ELSE ImagePayloads

\* translateText / analyzeImageRegion / explainWithSearch: without a key the
\* service throws before retryOperation is entered, with one it returns what
\* retryOperation(operation) settles with (retries = 3, delay = 2000)
serviceResults(outcomes) ==
    IF apiKey
    THEN retryResults(retryOperation(DefaultRetries, DefaultDelay), outcomes)
    ELSE {[ok |-> FALSE, error |-> ErrKeyMissing]}

InitPanel ==
    /\ apiKey \in BOOLEAN
    /\ \E saved \in PersistedValues :
        /\ history = loadHistory(saved)
        /\ storage = JSONstringify(loadHistory(saved))
    /\ now = OldRecord.timestamp + 1
    /\ loading = FALSE
    /\ activeId = null
    /\ deepDiveLoadingId = null
    /\ runs = <<>>
    /\ dives = <<>>
    /\ cleared = FALSE
    /\ lastUpdate = NoUpdate

setHistory_NoSave(h) ==
    /\ history' = h
    /\ UNCHANGED storage

\* setHistory(updater) followed by the effect that saves the history: lines 36-39
setHistory(h) ==
    /\ history' = h
    /\ storage' = JSONstringify(h)

\* PDFViewer handleTextSelect / handleImageCapture (id: Date.now()), App handleSelection,
\* and the synchronous part of processNewSelection: lines 46-61, up to the first await
onSelection(type, content) ==
    /\ Len(runs) < MaxRuns
    /\ \E dt \in 0..MaxDt :
        LET id == now + dt IN
        /\ now' = id
        /\ activeId' = <<id>>
        /\ loading' = TRUE
        /\ setHistory(prepend(newEntry(id, type, content, id), history))
        /\ runs' = Append(runs, [id |-> id, type |-> type, content |-> content,
                                 pc |-> "awaiting",
                                 caught |-> <<>>, answer |-> <<>>])
    /\ lastUpdate' = NoUpdate
    /\ UNCHANGED <<apiKey, deepDiveLoadingId, dives, cleared>>

\* what one invocation of the run's operation makes of the provider's answer
RunOutcomes(run) ==
    {[ok |-> FALSE, error |-> e] : e \in ProviderErrors}
    \cup (IF run.type = "text"
          THEN {translateOperation(t) : t \in TranslateResponses}
          ELSE {analyzeOperation(t) : t \in AnalyzeResponses})

\* reading analysis.originalText of an analysis that is null throws a TypeError
ErrTypeError == [message |-> <<"Cannot", "read", "properties", "of", "null">>]

\* what the try block of processNewSelection makes of the settled service call:
\* lines 67-74
awaited(run, r) ==
    IF r.ok /\ run.type = "image" /\ r.value = JsonNull
    THEN [ok |-> FALSE, error |-> ErrTypeError, answer |-> r.answer]
    ELSE r

\* the provider's answer behind a settled call: none when the last attempt was rejected
answerOf(r) == IF Has(r, "answer") THEN r.answer ELSE <<>>

panelResults(run) == {awaited(run, r) : r \in serviceResults(RunOutcomes(run))}

successPatch_Partial(run, value) ==
    IF run.type = "image"
    THEN [originalText |-> value.originalText]
    ELSE [originalText |-> run.content, translatedText |-> value]

\* the value the awaited service call resolved with, as the patch of lines 64-81
successPatch(run, value) ==
    IF run.type = "image"
    THEN [originalText |-> value.originalText, translatedText |-> value.translatedText]
    ELSE [originalText |-> run.content, translatedText |-> value]

\* the awaited service call resolved: lines 76-81 update the entry, then finally
RunSucceeds(i) ==
    /\ runs[i].pc = "awaiting"
    /\ \E r \in panelResults(runs[i]) :
        /\ r.ok
        /\ runs' = [runs EXCEPT ![i].pc = "resolved", ![i].answer = answerOf(r)]
        /\ setHistory(updateById(history, runs[i].id, successPatch(runs[i], r.value)))
    /\ lastUpdate' = Addressed(history, runs[i].id)
    /\ loading' = FALSE
    /\ UNCHANGED <<now, apiKey, activeId, deepDiveLoadingId, dives, cleared>>

\* the awaited service call rejected: the catch and finally blocks, lines 83-99
RunFails(i) ==
    /\ runs[i].pc = "awaiting"
    /\ \E r \in panelResults(runs[i]) :
        /\ ~r.ok
        /\ runs' = [runs EXCEPT ![i].pc = "rejected", ![i].caught = <<r.error>>,
                                ![i].answer = answerOf(r)]
        /\ setHistory(updateById(history, runs[i].id, [translatedText |-> errorMessage(r.error)]))
    /\ lastUpdate' = Addressed(history, runs[i].id)
    /\ loading' = FALSE
    /\ UNCHANGED <<now, apiKey, activeId, deepDiveLoadingId, dives, cleared>>

\* what one invocation of the deep dive's operation makes of the provider's answer
DiveOutcomes ==
    {[ok |-> FALSE, error |-> e] : e \in ProviderErrors}
    \cup {explainOperation(r) : r \in ExplainResponses}

\* a click on the Explain button of the k-th record: handleDeepDive up to its await
DiveStartWithin(k, cap) ==
    /\ Len(dives) < cap
    /\ deepDiveOffered(history[k])
    /\ deepDiveLoadingId' = <<history[k].id>>
    /\ dives' = Append(dives, [id |-> history[k].id, text |-> history[k].originalText,
                               pc |-> "awaiting"])
    /\ UNCHANGED <<now, apiKey, history, storage, loading, activeId, runs, cleared, lastUpdate>>

DiveStart(k) == DiveStartWithin(k, MaxDives)

\* explainWithSearch resolved: lines 132-137, then finally
DiveSucceeds(j) ==
    /\ dives[j].pc = "awaiting"
    /\ \E r \in serviceResults(DiveOutcomes) :
        /\ r.ok
        /\ dives' = [dives EXCEPT ![j].pc = "resolved"]
        /\ setHistory(updateById(history, dives[j].id,
                                 [explanation |-> r.value.explanation,
                                  searchSources |-> r.value.sources]))
    /\ lastUpdate' = Addressed(history, dives[j].id)
    /\ deepDiveLoadingId' = null
    /\ UNCHANGED <<now, apiKey, loading, activeId, runs, cleared>>

\* explainWithSearch rejected: the catch and finally blocks, lines 138-142
DiveFails(j) ==
    /\ dives[j].pc = "awaiting"
    /\ \E r \in serviceResults(DiveOutcomes) : ~r.ok
    /\ dives' = [dives EXCEPT ![j].pc = "rejected"]
    /\ deepDiveLoadingId' = null
    /\ UNCHANGED <<now, apiKey, history, storage, loading, activeId, runs, cleared, lastUpdate>>

\* the Clear History button (rendered when the history is not empty), confirmed:
\* lines 145-150, then the effect that saves the emptied history
clearHistory ==
    /\ Len(history) > 0
    /\ setHistory(<<>>)
    /\ lastUpdate' = NoUpdate
    /\ cleared' = TRUE
    /\ UNCHANGED <<now, apiKey, loading, activeId, deepDiveLoadingId, runs, dives>>

(***************************************************************************)
(* Capture: InteractivePage and the mode switcher of PDFViewer.tsx.        *)
(* A point is <<x, y>> relative to the page (getRelPos).  The text of a    *)
(* selection is the sequence of its words and blanks.  The pointer and the *)
(* keyboard are the environment: every order of the events below can be    *)
(* produced by a user (the mode buttons take the keyboard, a button can be *)
(* released over an element it was not pressed on, the selection can be    *)
(* changed or collapsed from the keyboard without any mouse event).        *)
(***************************************************************************)
MinBoxSize == 10

Points == {<<0, 0>>, <<5, 20>>, <<10, 10>>, <<15, 15>>}
Modes == {"text", "box"}
CanvasScales == {2}

Min(a, b) == IF a < b THEN a ELSE b
Abs(a) == IF a < 0 THEN 0 - a ELSE a

\* handleMouseUp, lines 69-72: the rectangle between the anchor and the pointer
dragRect(start, current) ==
    [x |-> Min(start[1], current[1]), y |-> Min(start[2], current[2]),
     w |-> Abs(current[1] - start[1]), h |-> Abs(current[2] - start[2])]

tooSmall_Both(rect) == rect.w < MinBoxSize /\ rect.h < MinBoxSize

\* line 74: if (w < 10 || h < 10) return
tooSmall(rect) == rect.w < MinBoxSize \/ rect.h < MinBoxSize

\* lines 80-88: the crop of the backing raster, scaled by canvas.width / canvas.offsetWidth
toDataURL(rect, scale) ==
    <<"data:image/png", rect.x * scale, rect.y * scale, rect.w * scale, rect.h * scale>>

\* String.prototype.trim
IsBlank(word) == word = " "
RECURSIVE trimStart(_)
trimStart(s) == IF s # <<>> /\ IsBlank(Head(s)) THEN trimStart(Tail(s)) ELSE s
RECURSIVE trimEnd(_)
trimEnd(s) == IF s # <<>> /\ IsBlank(s[Len(s)]) THEN trimEnd(SubSeq(s, 1, Len(s) - 1)) ELSE s
trim(s) == trimEnd(trimStart(s))

\* window.getSelection(): toString(), whether anchorNode is inside the page,
\* and whether the range ends outside it
NoSelection == [text |-> <<>>, anchorInPage |-> FALSE, endsInPage |-> FALSE]
Selections ==
    {NoSelection,
     [text |-> <<"neural", " ", "network", " ">>, anchorInPage |-> TRUE, endsInPage |-> TRUE],
     [text |-> <<" ", " ">>, anchorInPage |-> TRUE, endsInPage |-> TRUE],
     [text |-> <<"loss", " ", "Upload">>, anchorInPage |-> TRUE, endsInPage |-> FALSE],
     [text |-> <<"Upload">>, anchorInPage |-> FALSE, endsInPage |-> FALSE]}

\* lines 111-114: a valid selection exists and it is inside this page
pendingSelection(sel) == Len(trim(sel.text)) > 0 /\ sel.anchorInPage

tooltipShown_AnyMode == showTextTooltip

\* what is rendered: the selection box (lines 163-171), the tooltip (line 176)
boxShown == mode = "box" /\ isSelecting
tooltipShown == showTextTooltip /\ mode = "text"
captureState ==
    IF boxShown THEN "Dragging" ELSE IF tooltipShown THEN "TextPending" ELSE "Idle"

\* PDFViewer handleImageCapture / handleTextSelect: the artifact handed to onSelection.
\* stale records that the capture mode was switched after the gesture was recorded.
emit(type, content, stale) ==
    emitted' = Append(emitted, [type |-> type, content |-> content, mode |-> mode, stale |-> stale])

InitCapture ==
    /\ mode = "text"
    /\ isSelecting = FALSE
    /\ startPos = <<0, 0>>
    /\ currentPos = <<0, 0>>
    /\ showTextTooltip = FALSE
    /\ selectedText = <<>>
    /\ selection = NoSelection
    /\ canvas \in {0} \cup CanvasScales
    /\ emitted = <<>>
    /\ lastEvent = "other"
    /\ dragStale = FALSE
    /\ textStale = FALSE

CaptureAtRest ==
    /\ mode = "text"
    /\ isSelecting = FALSE
    /\ startPos = <<0, 0>>
    /\ currentPos = <<0, 0>>
    /\ showTextTooltip = FALSE
    /\ selectedText = <<>>
    /\ selection = NoSelection
    /\ canvas = 0
    /\ emitted = <<>>
    /\ lastEvent = "other"
    /\ dragStale = FALSE
    /\ textStale = FALSE

\* the mode switcher, lines 280 and 287: setMode, and nothing else
setMode(m) ==
    /\ m # mode
    /\ mode' = m
    /\ dragStale' = isSelecting
    /\ textStale' = showTextTooltip
    /\ lastEvent' = "other"
    /\ UNCHANGED <<isSelecting, startPos, currentPos, showTextTooltip, selectedText, selection, canvas, emitted>>

\* handleMouseDown, lines 51-58
handleMouseDown(pos) ==
    /\ IF mode # "box"
       THEN /\ lastEvent' = "other"
            /\ UNCHANGED <<isSelecting, startPos, currentPos, dragStale>>
       ELSE /\ startPos' = pos
            /\ currentPos' = pos
            /\ isSelecting' = TRUE
            /\ dragStale' = FALSE
            /\ lastEvent' = "other"
    /\ UNCHANGED <<mode, showTextTooltip, selectedText, selection, canvas, emitted, textStale>>

\* handleMouseMove, lines 60-63
handleMouseMove(pos) ==
    /\ IF mode # "box" \/ ~isSelecting
       THEN /\ lastEvent' = "other"
            /\ UNCHANGED currentPos
       ELSE /\ currentPos' = pos
            /\ lastEvent' = "other"
    /\ UNCHANGED <<mode, isSelecting, startPos, showTextTooltip, selectedText, selection, canvas, emitted, dragStale, textStale>>

\* onMouseLeave, line 160
handleMouseLeave ==
    /\ isSelecting' = FALSE
    /\ dragStale' = FALSE
    /\ lastEvent' = "other"
    /\ UNCHANGED <<mode, startPos, currentPos, showTextTooltip, selectedText, selection, canvas, emitted, textStale>>

\* handleMouseUp, lines 65-95
handleMouseUp ==
    IF mode # "box" \/ ~isSelecting
    THEN /\ lastEvent' = "other"
         /\ UNCHANGED <<isSelecting, emitted, dragStale>>
    ELSE /\ isSelecting' = FALSE
         /\ dragStale' = FALSE
         /\ IF tooSmall(dragRect(startPos, currentPos))
            THEN /\ lastEvent' = "mouseUp:discard"
                 /\ UNCHANGED emitted
            ELSE IF canvas = 0
                 THEN /\ lastEvent' = "mouseUp:nocanvas"
                      /\ UNCHANGED emitted
                 ELSE /\ lastEvent' = "mouseUp:capture"
                      /\ emit("image", toDataURL(dragRect(startPos, currentPos), canvas), dragStale)

\* handleDocumentMouseUp, lines 99-134, for a mouseup whose target is not in the tooltip
handleDocumentMouseUp ==
    IF mode # "text"
    THEN UNCHANGED <<showTextTooltip, selectedText, textStale>>
    ELSE IF pendingSelection(selection)
         THEN /\ selectedText' = selection.text
              /\ showTextTooltip' = TRUE
              /\ textStale' = FALSE
         ELSE /\ showTextTooltip' = FALSE
              /\ textStale' = FALSE
              /\ UNCHANGED selectedText

\* a button is released over the page: onMouseUp of the page, then the document's listener
MouseUpOnPage ==
    /\ Len(emitted) < MaxEmitted
    /\ handleMouseUp
    /\ handleDocumentMouseUp
    /\ UNCHANGED <<mode, startPos, currentPos, selection, canvas>>

\* a button is released over the tooltip, a child of the page: onMouseUp of the
\* page, then the document's listener, which returns at line 105
MouseUpOnTooltip ==
    /\ tooltipShown
    /\ handleMouseUp
    /\ UNCHANGED <<mode, startPos, currentPos, showTextTooltip, selectedText, selection, canvas, textStale>>

\* a button is released outside the page: the document's listener alone
MouseUpOutside ==
    /\ handleDocumentMouseUp
    /\ lastEvent' = "other"
    /\ UNCHANGED <<mode, isSelecting, startPos, currentPos, selection, canvas, emitted, dragStale>>

\* handleTooltipMouseDown, lines 140-147: the Translate tooltip is pressed
handleTooltipMouseDown ==
    /\ Len(emitted) < MaxEmitted
    /\ tooltipShown
    /\ emit("text", selectedText, textStale)
    /\ showTextTooltip' = FALSE
    /\ textStale' = FALSE
    /\ selection' = NoSelection
    /\ lastEvent' = "tooltipMouseDown"
    /\ UNCHANGED <<mode, isSelecting, startPos, currentPos, selectedText, canvas, dragStale>>

\* the user selects text, extends the selection or collapses it (pointer or keyboard)
SelectionChanges(sel) ==
    /\ sel # selection
    /\ selection' = sel
    /\ lastEvent' = "other"
    /\ UNCHANGED <<mode, isSelecting, startPos, currentPos, showTextTooltip, selectedText, canvas, emitted, dragStale, textStale>>

\* react-pdf paints the page's canvas (scale = canvas.width / canvas.offsetWidth)
CanvasRenders(scale) ==
    /\ canvas = 0
    /\ canvas' = scale
    /\ lastEvent' = "other"
    /\ UNCHANGED <<mode, isSelecting, startPos, currentPos, showTextTooltip, selectedText, selection, emitted, dragStale, textStale>>

(***************************************************************************)
(* LiveSession of services/geminiService.ts.  An object holds its private  *)
(* session field, and the model keeps beside it the connect() calls made   *)
(* on it, the ai.live.connect calls these made and how each settled, and   *)
(* the statuses it reported to onStatusChange.                             *)
(***************************************************************************)
truthy(v) == v \notin {null, Undefined}

\* the handle of the n-th live session the provider opened
handle(n) == <<"live session", ToString(n)>>

\* new LiveSession(onStatusChange): lines 179-185
NewSession == [session |-> Undefined, connects |-> 0, calls |-> <<>>, reports |-> <<>>]

\* this.onStatusChange(s)
report(obj, s) == [obj EXCEPT !.reports = Append(@, s)]

\* connect() up to its await: lines 187-191
connect(obj) ==
    [report(obj, "Connecting...") EXCEPT !.connects = @ + 1, !.calls = Append(@, "awaiting")]

\* ai.live.connect resolved with a handle: lines 191-201
connectResolved(obj, c, h) ==
    [report(obj, "Connected") EXCEPT !.session = h, !.calls[c] = "resolved"]

connectRejected_Silent(obj, c) == [obj EXCEPT !.calls[c] = "rejected"]

\* ai.live.connect rejected: lines 202-205
connectRejected(obj, c) ==
    [report(obj, "Connection Failed") EXCEPT !.calls[c] = "rejected"]

\* disconnect(): lines 208-213
disconnect(obj) ==
    report([obj EXCEPT !.session = IF truthy(@) THEN null ELSE @], "Disconnected")

connecting(obj) == \E c \in 1..Len(obj.calls) : obj.calls[c] = "awaiting"
connected(obj) == truthy(obj.session)
disconnects(obj) == Cardinality({n \in 1..Len(obj.reports) : obj.reports[n] = "Disconnected"})

\* the observer LiveAssistant gives to the constructor: lines 17-20
onStatusChange(s) ==
    /\ status' = s
    /\ isConnected' = (s = "Connected")

SessionAtRest ==
    /\ sessions = <<>>
    /\ opened = 0
    /\ isOpen = FALSE
    /\ liveSessionRef = null
    /\ status = "Idle"
    /\ isConnected = FALSE
    /\ cleanupIsOpen = FALSE

\* a client calls connect() on the controller
Connect(k) ==
    /\ sessions[k].connects + disconnects(sessions[k]) < MaxCalls
    /\ sessions' = [sessions EXCEPT ![k] = connect(@)]
    /\ onStatusChange("Connecting...")
    /\ UNCHANGED <<opened, isOpen, liveSessionRef, cleanupIsOpen>>

\* a client calls disconnect() on the controller
Disconnect(k) ==
    /\ sessions[k].connects + disconnects(sessions[k]) < MaxCalls
    /\ sessions' = [sessions EXCEPT ![k] = disconnect(@)]
    /\ onStatusChange("Disconnected")
    /\ UNCHANGED <<opened, isOpen, liveSessionRef, cleanupIsOpen>>

\* the provider opens the live session an awaiting connect() asked for; connect()
\* does not test API_KEY (line 189), and without a key the provider only refuses
ConnectResolves(k, c) ==
    /\ apiKey
    /\ sessions[k].calls[c] = "awaiting"
    /\ opened' = opened + 1
    /\ sessions' = [sessions EXCEPT ![k] = connectResolved(@, c, handle(opened + 1))]
    /\ onStatusChange("Connected")
    /\ UNCHANGED <<isOpen, liveSessionRef, cleanupIsOpen>>

\* the provider refuses it (no key, network, quota)
ConnectRejects(k, c) ==
    /\ sessions[k].calls[c] = "awaiting"
    /\ sessions' = [sessions EXCEPT ![k] = connectRejected(@, c)]
    /\ onStatusChange("Connection Failed")
    /\ UNCHANGED <<opened, isOpen, liveSessionRef, cleanupIsOpen>>

(***************************************************************************)
(* LiveAssistant.tsx: the effect on [isOpen] and its cleanup.  A change of *)
(* isOpen re-renders the component, runs the cleanup the previous run of   *)
(* the effect returned (a closure over that render's isOpen) and then the  *)
(* effect of the new render.                                               *)
(***************************************************************************)
\* the cleanup of lines 29-36 acts: it was created by a render with isOpen false
cleans == ~cleanupIsOpen /\ liveSessionRef # null

afterCleanup ==
    IF cleans THEN [sessions EXCEPT ![liveSessionRef[1]] = disconnect(@)] ELSE sessions

refAfterCleanup == IF cleans THEN null ELSE liveSessionRef

\* the effect of lines 16-26 under the new isOpen
creates(open) == open /\ refAfterCleanup = null

\* isOpen changes to open: cleanup of the previous effect, then the new effect
setIsLiveOpen(open) ==
    /\ isOpen # open
    /\ creates(open) => Len(sessions) < MaxSessions
    /\ isOpen' = open
    /\ cleanupIsOpen' = open
    /\ sessions' = IF creates(open)
                   THEN Append(afterCleanup, connect(NewSession))
                   ELSE afterCleanup
    /\ liveSessionRef' = IF creates(open) THEN <<Len(sessions) + 1>> ELSE refAfterCleanup
    /\ IF creates(open) THEN onStatusChange("Connecting...")
       ELSE IF cleans THEN status' = "Idle" /\ isConnected' = FALSE
       ELSE UNCHANGED <<status, isConnected>>
    /\ UNCHANGED opened

(***************************************************************************)
(* Read Aloud: handlePlayAudio of TranslationPanel.tsx and generateSpeech. *)
(* A speech is one call of the handler: rejected at the guard, awaiting    *)
(* generateSpeech, playing, ended or failed.  The button that calls the    *)
(* handler is also disabled while audioPlayingId is set (line 219).        *)
(***************************************************************************)
busy_Never(playing) == FALSE

\* if (audioPlayingId) return: line 107
busy(playing) == playing # null /\ playing[1] # 0

ErrNoAudio == [message |-> <<"No", "audio", "data", "generated">>]
SpeechResponses == {"audio", "none"}

\* the operation of generateSpeech: lines 154-174
speechOperation(response) ==
    IF response = "none"
    THEN [ok |-> FALSE, error |-> ErrNoAudio]
    ELSE [ok |-> TRUE, value |-> "buffer"]

SpeechOutcomes ==
    {[ok |-> FALSE, error |-> e] : e \in ProviderErrors}
    \cup {speechOperation(r) : r \in SpeechResponses}

AudioAtRest ==
    /\ audioPlayingId = null
    /\ speeches = <<>>

\* handlePlayAudio(item.translatedText, item.id) up to its await: lines 106-110
handlePlayAudio(k) ==
    /\ Len(speeches) < MaxPlays
    /\ toolbarShown(history[k])
    /\ IF busy(audioPlayingId)
       THEN /\ speeches' = Append(speeches, [id |-> history[k].id, pc |-> "rejected"])
            /\ UNCHANGED audioPlayingId
       ELSE /\ speeches' = Append(speeches, [id |-> history[k].id, pc |-> "awaiting"])
            /\ audioPlayingId' = <<history[k].id>>

\* generateSpeech resolved and the buffer source started: lines 110-116
SpeechResolves(j) ==
    /\ speeches[j].pc = "awaiting"
    /\ \E r \in serviceResults(SpeechOutcomes) : r.ok
    /\ speeches' = [speeches EXCEPT ![j].pc = "playing"]
    /\ UNCHANGED audioPlayingId

\* generateSpeech rejected, or the audio context threw: the catch of lines 117-120
SpeechFails(j) ==
    /\ speeches[j].pc = "awaiting"
    /\ \E r \in serviceResults(SpeechOutcomes) : ~r.ok
    /\ speeches' = [speeches EXCEPT ![j].pc = "failed"]
    /\ audioPlayingId' = null

\* source.onended: line 116
onended(j) ==
    /\ speeches[j].pc = "playing"
    /\ speeches' = [speeches EXCEPT ![j].pc = "ended"]
    /\ audioPlayingId' = null

Next ==
    \/ \E type \in {"text", "image"} : \E content \in Payloads(type) : onSelection(type, content) /\ UNCHANGED <<retryVars, captureVars, loadVars, sessionVars, audioVars>>
    \/ \E i \in 1..Len(runs) : RunSucceeds(i) /\ UNCHANGED <<retryVars, captureVars, loadVars, sessionVars, audioVars>>
    \/ \E i \in 1..Len(runs) : RunFails(i) /\ UNCHANGED <<retryVars, captureVars, loadVars, sessionVars, audioVars>>
    \/ \E k \in 1..Len(history) : DiveStart(k) /\ UNCHANGED <<retryVars, captureVars, loadVars, sessionVars, audioVars>>
    \/ \E j \in 1..Len(dives) : DiveSucceeds(j) /\ UNCHANGED <<retryVars, captureVars, loadVars, sessionVars, audioVars>>
    \/ \E j \in 1..Len(dives) : DiveFails(j) /\ UNCHANGED <<retryVars, captureVars, loadVars, sessionVars, audioVars>>
    \/ clearHistory /\ UNCHANGED <<retryVars, captureVars, loadVars, sessionVars, audioVars>>

Init == InitPanel /\ rcall = RetryIdle /\ CaptureAtRest /\ LoadAtRest /\ SessionAtRest /\ AudioAtRest

Spec == Init /\ [][Next]_vars

\* the retry wrapper alone, beside a panel that is left alone
InitRetrySpec ==
    /\ InitRetry
    /\ apiKey = TRUE
    /\ history = <<>>
    /\ storage = JSONstringify(<<>>)
    /\ now = OldRecord.timestamp + 1
    /\ loading = FALSE
    /\ activeId = null
    /\ deepDiveLoadingId = null
    /\ runs = <<>>
    /\ dives = <<>>
    /\ cleared = FALSE
    /\ lastUpdate = NoUpdate
    /\ CaptureAtRest
    /\ LoadAtRest
    /\ SessionAtRest
    /\ AudioAtRest

SpecRetry == InitRetrySpec /\ [][NextRetry]_vars

\* the capture surface alone, beside a panel and a retry wrapper that are left alone
PanelAtRest ==
    /\ apiKey = TRUE
    /\ history = <<>>
    /\ storage = JSONstringify(<<>>)
    /\ now = OldRecord.timestamp + 1
    /\ loading = FALSE
    /\ activeId = null
    /\ deepDiveLoadingId = null
    /\ runs = <<>>
    /\ dives = <<>>
    /\ cleared = FALSE
    /\ lastUpdate = NoUpdate

InitCaptureSpec ==
    /\ InitCapture /\ PanelAtRest /\ rcall = RetryIdle
    /\ LoadAtRest
    /\ SessionAtRest
    /\ AudioAtRest

NextCapture ==
    \/ \E m \in Modes : setMode(m) /\ UNCHANGED <<retryVars, panelVars, loadVars, sessionVars, audioVars>>
    \/ \E pos \in Points : handleMouseDown(pos) /\ UNCHANGED <<retryVars, panelVars, loadVars, sessionVars, audioVars>>
    \/ \E pos \in Points : handleMouseMove(pos) /\ UNCHANGED <<retryVars, panelVars, loadVars, sessionVars, audioVars>>
    \/ handleMouseLeave /\ UNCHANGED <<retryVars, panelVars, loadVars, sessionVars, audioVars>>
    \/ MouseUpOnPage /\ UNCHANGED <<retryVars, panelVars, loadVars, sessionVars, audioVars>>
    \/ MouseUpOnTooltip /\ UNCHANGED <<retryVars, panelVars, loadVars, sessionVars, audioVars>>
    \/ MouseUpOutside /\ UNCHANGED <<retryVars, panelVars, loadVars, sessionVars, audioVars>>
    \/ handleTooltipMouseDown /\ UNCHANGED <<retryVars, panelVars, loadVars, sessionVars, audioVars>>
    \/ \E sel \in Selections : SelectionChanges(sel) /\ UNCHANGED <<retryVars, panelVars, loadVars, sessionVars, audioVars>>
    \/ \E scale \in CanvasScales : CanvasRenders(scale) /\ UNCHANGED <<retryVars, panelVars, loadVars, sessionVars, audioVars>>

SpecCapture == InitCaptureSpec /\ [][NextCapture]_vars

(***************************************************************************)
(* The start of the panel over what a previous session, or anything else   *)
(* writing to the origin's localStorage, left under 'paperpal_history'.    *)
(***************************************************************************)
\* items a stored array can hold: records of this program, and other JSON values
StoredItems ==
    {OldRecord,
     [id |-> 2, type |-> "image", originalText |-> <<"source">>, translatedText |-> <<"target">>,
      imageUrl |-> <<"data:image/png;base64,AAAA">>, timestamp |-> 2],
     [id |-> 3, type |-> "text", originalText |-> <<"neural network">>,
      translatedText |-> SentinelFailed, timestamp |-> 3],
     [id |-> 4, type |-> "text", originalText |-> <<"neural network">>,
      translatedText |-> <<>>, timestamp |-> 4],
     [id |-> 5],
     [title |-> <<"a note">>]}

RECURSIVE SeqsUpTo(_, _)
SeqsUpTo(S, n) ==
    IF n = 0 THEN {<<>>}
    ELSE SeqsUpTo(S, n - 1) \cup {Append(q, x) : q \in {r \in SeqsUpTo(S, n - 1) : Len(r) = n - 1}, x \in S}

StartupValues ==
    {StorageAbsent, StorageEmpty, StorageGarbage}
    \cup JsonNotArray
    \cup {JSONstringify(h) : h \in SeqsUpTo(StoredItems, MaxStored)}

\* the render of lines 152-275 can read history.length, call history.map and
\* read item.translatedText.includes without a TypeError
renders(h) ==
    /\ h.array
    /\ \A i \in 1..Len(h.value) : Has(h.value[i], "translatedText")

\* the first render of TranslationPanel: useState runs the initializer
Mount ==
    /\ mounted.phase = "start"
    /\ mounted' = [phase |-> "loaded", history |-> historyInitializer(storage)]
    /\ UNCHANGED storage

\* the rest of the first render: lines 152-275
Render ==
    /\ mounted.phase = "loaded"
    /\ mounted' = [mounted EXCEPT !.phase = IF renders(mounted.history) THEN "rendered" ELSE "crashed"]
    /\ UNCHANGED storage

\* the effect of lines 37-39 after the first render
SaveEffect ==
    /\ mounted.phase = "rendered"
    /\ mounted' = [mounted EXCEPT !.phase = "saved"]
    /\ storage' = JSONstringify(mounted.history.value)

panelVarsButStorage == <<now, apiKey, history, loading, activeId, deepDiveLoadingId, runs, dives, cleared, lastUpdate>>

InitLoadSpec ==
    /\ storage \in StartupValues
    /\ mounted = Unmounted
    /\ SessionAtRest
    /\ AudioAtRest
    /\ apiKey = TRUE
    /\ history = <<>>
    /\ now = OldRecord.timestamp + 1
    /\ loading = FALSE
    /\ activeId = null
    /\ deepDiveLoadingId = null
    /\ runs = <<>>
    /\ dives = <<>>
    /\ cleared = FALSE
    /\ lastUpdate = NoUpdate
    /\ rcall = RetryIdle
    /\ CaptureAtRest

NextLoad ==
    \/ Mount /\ UNCHANGED <<retryVars, captureVars, panelVarsButStorage, sessionVars, audioVars>>
    \/ Render /\ UNCHANGED <<retryVars, captureVars, panelVarsButStorage, sessionVars, audioVars>>
    \/ SaveEffect /\ UNCHANGED <<retryVars, captureVars, panelVarsButStorage, sessionVars, audioVars>>

SpecLoad == InitLoadSpec /\ [][NextLoad]_vars

(***************************************************************************)
(* The deep dives of a panel whose history already holds records of every  *)
(* kind: filled, failed, and pending (a record saved while its run was in  *)
(* flight and loaded again by the initializer keeps translatedText '').    *)
(***************************************************************************)
LimitRecord ==
    [id |-> 6, type |-> "text", originalText |-> <<"limit of a sequence">>,
     translatedText |-> <<"the ", "limit", " of the sequence">>, timestamp |-> 6]

DiveRecords == {item \in StoredItems : Has(item, "translatedText")} \cup {LimitRecord}

DiveHistories ==
    {h \in SeqsUpTo(DiveRecords, 2) : Len(h) = 2 /\ h[1].id # h[2].id}

LoadedPanel ==
    /\ apiKey \in BOOLEAN
    /\ history \in DiveHistories
    /\ storage = JSONstringify(history)
    /\ now = LimitRecord.timestamp + 1
    /\ loading = FALSE
    /\ activeId = null
    /\ deepDiveLoadingId = null
    /\ runs = <<>>
    /\ dives = <<>>
    /\ cleared = FALSE
    /\ lastUpdate = NoUpdate

InitDiveSpec ==
    /\ LoadedPanel
    /\ rcall = RetryIdle
    /\ CaptureAtRest
    /\ LoadAtRest
    /\ SessionAtRest
    /\ AudioAtRest

NextDive ==
    \/ \E k \in 1..Len(history) : DiveStartWithin(k, MaxDiveCalls) /\ UNCHANGED <<retryVars, captureVars, loadVars, sessionVars, audioVars>>
    \/ \E j \in 1..Len(dives) : DiveSucceeds(j) /\ UNCHANGED <<retryVars, captureVars, loadVars, sessionVars, audioVars>>
    \/ \E j \in 1..Len(dives) : DiveFails(j) /\ UNCHANGED <<retryVars, captureVars, loadVars, sessionVars, audioVars>>
    \/ clearHistory /\ UNCHANGED <<retryVars, captureVars, loadVars, sessionVars, audioVars>>

SpecDive == InitDiveSpec /\ [][NextDive]_vars

\* Read Aloud over a loaded history
InitAudioSpec ==
    /\ LoadedPanel
    /\ rcall = RetryIdle
    /\ CaptureAtRest
    /\ LoadAtRest
    /\ SessionAtRest
    /\ AudioAtRest

NextAudio ==
    \/ \E k \in 1..Len(history) : handlePlayAudio(k) /\ UNCHANGED <<retryVars, panelVars, captureVars, loadVars, sessionVars>>
    \/ \E j \in 1..Len(speeches) : SpeechResolves(j) /\ UNCHANGED <<retryVars, panelVars, captureVars, loadVars, sessionVars>>
    \/ \E j \in 1..Len(speeches) : SpeechFails(j) /\ UNCHANGED <<retryVars, panelVars, captureVars, loadVars, sessionVars>>
    \/ \E j \in 1..Len(speeches) : onended(j) /\ UNCHANGED <<retryVars, panelVars, captureVars, loadVars, sessionVars>>

SpecAudio == InitAudioSpec /\ [][NextAudio]_vars

\* one session controller and a client that calls connect() and disconnect() in any order
InitSessionSpec ==
    /\ apiKey \in BOOLEAN
    /\ history = <<>>
    /\ storage = JSONstringify(<<>>)
    /\ now = OldRecord.timestamp + 1
    /\ loading = FALSE
    /\ activeId = null
    /\ deepDiveLoadingId = null
    /\ runs = <<>>
    /\ dives = <<>>
    /\ cleared = FALSE
    /\ lastUpdate = NoUpdate
    /\ rcall = RetryIdle /\ CaptureAtRest /\ LoadAtRest /\ AudioAtRest
    /\ sessions = <<NewSession>>
    /\ opened = 0
    /\ isOpen = FALSE
    /\ liveSessionRef = null
    /\ status = "Idle"
    /\ isConnected = FALSE
    /\ cleanupIsOpen = FALSE

NextSession ==
    \/ Connect(1) /\ UNCHANGED <<retryVars, panelVars, captureVars, loadVars, audioVars>>
    \/ Disconnect(1) /\ UNCHANGED <<retryVars, panelVars, captureVars, loadVars, audioVars>>
    \/ \E c \in 1..Len(sessions[1].calls) : ConnectResolves(1, c) /\ UNCHANGED <<retryVars, panelVars, captureVars, loadVars, audioVars>>
    \/ \E c \in 1..Len(sessions[1].calls) : ConnectRejects(1, c) /\ UNCHANGED <<retryVars, panelVars, captureVars, loadVars, audioVars>>

SpecSession == InitSessionSpec /\ [][NextSession]_vars

\* the voice assistant: the Mic button of App opens it, its X and End Session close it
InitAssistantSpec ==
    /\ PanelAtRest /\ rcall = RetryIdle /\ CaptureAtRest /\ LoadAtRest /\ AudioAtRest
    /\ SessionAtRest

NextAssistant ==
    \/ \E open \in BOOLEAN : setIsLiveOpen(open) /\ UNCHANGED <<retryVars, panelVars, captureVars, loadVars, audioVars>>
    \/ \E k \in 1..Len(sessions) : \E c \in 1..Len(sessions[k].calls) : ConnectResolves(k, c) /\ UNCHANGED <<retryVars, panelVars, captureVars, loadVars, audioVars>>
    \/ \E k \in 1..Len(sessions) : \E c \in 1..Len(sessions[k].calls) : ConnectRejects(k, c) /\ UNCHANGED <<retryVars, panelVars, captureVars, loadVars, audioVars>>

SpecAssistant == InitAssistantSpec /\ [][NextAssistant]_vars

(***************************************************************************)
(* Claims about retryOperation, under SpecRetry.                           *)
(***************************************************************************)
\* the errors the specification calls transient: status 429, or a quota/rate-limit marker
Transient(o) == ~o.ok /\ o.error \in TransientErrors
Terminal(o) == ~o.ok /\ o.error \in TerminalErrors

\* the first k invocations of the operation all failed with a transient error
FailedTransient(k) ==
    /\ Len(rcall.outcomes) >= k
    /\ \A i \in 1..k : Transient(rcall.outcomes[i])

\* the k delays initialDelay * 2^0, ..., initialDelay * 2^(k-1)
Backoff(k) == [i \in 1..k |-> rcall.initialDelay * 2^(i - 1)]

RECURSIVE SumSeq(_)
SumSeq(q) == IF q = <<>> THEN 0 ELSE q[1] + SumSeq(Tail(q))

\* C5: when the operation fails with a transient error exactly k times and then
\* succeeds, with k < maxRetries, the call has not rejected after the k failures,
\* and on the success it resolves with the operation's value after exactly k
\* waits, the i-th being initialDelay * 2^(i-1), initialDelay * (2^k - 1) in all.
C5_ResolvesAfterKWaits ==
    \A k \in 0..(rcall.maxRetries - 1) :
        FailedTransient(k) =>
            /\ Len(rcall.outcomes) = k => rcall.frame.pc \in {"calling", "waiting"}
            /\ (Len(rcall.outcomes) > k /\ rcall.outcomes[k + 1].ok) =>
                /\ rcall.frame.pc = "resolved"
                /\ Len(rcall.outcomes) = k + 1
                /\ rcall.returned = <<rcall.outcomes[k + 1].value>>
                /\ rcall.waits = Backoff(k)
                /\ SumSeq(rcall.waits) = rcall.initialDelay * (2^k - 1)

C5_Witness ==
    /\ rcall.maxRetries = DefaultRetries
    /\ rcall.initialDelay = DefaultDelay
    /\ FailedTransient(2)
    /\ rcall.frame.pc = "resolved"
    /\ rcall.waits = <<2000, 4000>>

\* C6 as claimed: when the operation fails with a transient error k >= maxRetries
\* times (k >= 1) and then succeeds, the call never resolves with the success value.
C6_Original ==
    (rcall.maxRetries >= 1 /\ FailedTransient(rcall.maxRetries)) => rcall.frame.pc # "resolved"

\* C6 amended: the call does not reject on any of the first maxRetries transient
\* failures; after maxRetries + 1 transient failures in a row it has rejected with the error of the last invocation, after exactly maxRetries waits
\* (initialDelay * 2^(i-1)), and the operation is not invoked again; after exactly
\* maxRetries transient failures and a success it resolves with the success value
\* after maxRetries waits.
C6_RejectsAfterMaxRetriesPlusOne ==
    LET m == rcall.maxRetries IN
    /\ \A j \in 1..m :
        (FailedTransient(j) /\ Len(rcall.outcomes) = j) => rcall.frame.pc \in {"waiting", "calling"}
    /\ FailedTransient(m + 1) =>
        /\ rcall.frame.pc = "rejected"
        /\ Len(rcall.outcomes) = m + 1
        /\ rcall.thrown = <<rcall.outcomes[m + 1].error>>
        /\ rcall.returned = <<>>
        /\ rcall.waits = Backoff(m)
    /\ (FailedTransient(m) /\ Len(rcall.outcomes) > m /\ rcall.outcomes[m + 1].ok) =>
        /\ rcall.frame.pc = "resolved"
        /\ rcall.returned = <<rcall.outcomes[m + 1].value>>
        /\ rcall.waits = Backoff(m)

C6_Witness ==
    /\ rcall.maxRetries = DefaultRetries
    /\ rcall.initialDelay = DefaultDelay
    /\ FailedTransient(DefaultRetries + 1)
    /\ rcall.frame.pc = "rejected"
    /\ rcall.waits = <<2000, 4000, 8000>>

\* C7: an invocation that fails with a terminal error is the last one: the call
\* rejects with that error at once, no wait follows it, and when it is the first
\* invocation the call made one invocation and zero waits, whatever retries remain.
C7_TerminalNeverRetried ==
    \A n \in 1..Len(rcall.outcomes) :
        Terminal(rcall.outcomes[n]) =>
            /\ n = Len(rcall.outcomes)
            /\ rcall.frame.pc = "rejected"
            /\ rcall.thrown = <<rcall.outcomes[n].error>>
            /\ Len(rcall.waits) = n - 1

C7_Witness ==
    /\ rcall.maxRetries = DefaultRetries
    /\ Len(rcall.outcomes) = 1
    /\ Terminal(rcall.outcomes[1])
    /\ rcall.frame.pc = "rejected"
    /\ rcall.waits = <<>>

(***************************************************************************)
(* Claims about the pipeline and the history, under Spec.                  *)
(***************************************************************************)
Ids(h) == [i \in 1..Len(h) |-> h[i].id]
RunIds == [i \in 1..Len(runs) |-> runs[i].id]
Distinct(q) == \A i, j \in 1..Len(q) : i # j => q[i] # q[j]
Settled(call) == call.pc \in {"resolved", "rejected"}
AllSettled == \A i \in 1..Len(runs) : Settled(runs[i])
Positions(h, id) == {k \in 1..Len(h) : h[k].id = id}

\* C1: when the artifacts delivered so far have pairwise distinct ids, no clear
\* has happened and every run has resolved, the history holds exactly one record
\* per artifact, and the record of a later artifact is before the record of every
\* earlier one: the front of the history is the arrivals, newest first.
C1_OneRecordPerIdNewestFirst ==
    (~cleared /\ Distinct(RunIds) /\ AllSettled) =>
        /\ \A i \in 1..Len(runs) : Cardinality(Positions(history, runs[i].id)) = 1
        /\ \A i, j \in 1..Len(runs) :
            i < j => \A a \in Positions(history, runs[i].id), b \in Positions(history, runs[j].id) : b < a
        /\ Len(history) >= Len(runs)
        /\ \A i \in 1..Len(runs) : history[i].id = runs[Len(runs) + 1 - i].id

C1_Witness ==
    /\ ~cleared /\ Distinct(RunIds) /\ AllSettled
    /\ Len(runs) >= 2
    /\ Len(history) > Len(runs)
    /\ history[1].translatedText = SentinelLimit
    /\ history[2].translatedText = <<"target">>

\* C2 as claimed: no two records of the history share an id.
C2_UniqueIds == Distinct(Ids(history))

\* C3 as claimed: the ids of the emitted artifacts are strictly increasing in
\* emission order.
C3_StrictlyIncreasingIds ==
    \A i, j \in 1..Len(runs) : i < j => runs[i].id < runs[j].id

\* C4: the step in which a run settles (success or failure), or a deep dive
\* resolves, while no record of the history has its id leaves the history, and
\* its persisted copy, as they were.
C4_Step ==
    /\ \A i \in 1..Len(runs) :
        (~Settled(runs[i]) /\ Settled(runs'[i]) /\ ~HasId(history, runs[i].id)) =>
            (history' = history /\ storage' = storage)
    /\ \A j \in 1..Len(dives) :
        (~Settled(dives[j]) /\ Settled(dives'[j]) /\ ~HasId(history, dives[j].id)) =>
            (history' = history /\ storage' = storage)

C4_AbsentIdIsNoOp == [][C4_Step]_vars

\* an update has just been applied that found no record with its id, beside
\* records of other ids that it left in place
C4_Witness ==
    /\ lastUpdate = "miss"
    /\ Len(history) > 0
    /\ \E i \in 1..Len(runs) : Settled(runs[i]) /\ ~HasId(history, runs[i].id)

\* the sentinel C8 claims for a failure: by the retry wrapper's classification
ClaimedSentinel(e) == IF isQuotaError(e) THEN SentinelLimit ELSE SentinelFailed

\* C8 as claimed: the step in which a run fails gives the records with the run's
\* id the rate-limit sentinel when the error is one the retry wrapper classifies
\* as transient (it was rethrown with the retries exhausted), the generic sentinel
\* otherwise, and leaves their other fields as they were.
C8_Step ==
    \A i \in 1..Len(runs) :
        (runs[i].pc # "rejected" /\ runs'[i].pc = "rejected") =>
            /\ Len(history') = Len(history)
            /\ \A k \in Positions(history, runs[i].id) :
                history'[k] = [translatedText |-> ClaimedSentinel(runs'[i].caught[1])] @@ history[k]

C8_SentinelFollowsClassification == [][C8_Step]_vars

\* C9: while the artifacts have pairwise distinct ids, no step changes the
\* resultText of a record that is filled or failed, and a settled run never
\* runs again.
C9_Step ==
    Distinct(RunIds') =>
        /\ \A k \in 1..Len(history) : \A m \in 1..Len(history') :
            (history'[m].id = history[k].id /\ history[k].translatedText # <<>>) =>
                history'[m].translatedText = history[k].translatedText
        /\ \A i \in 1..Len(runs) : Settled(runs[i]) => runs'[i] = runs[i]

C9_ResultTextSetOnce == [][C9_Step]_vars

C9_Witness ==
    /\ Distinct(RunIds) /\ AllSettled /\ ~cleared
    /\ Len(runs) >= 2
    /\ history[1].translatedText = <<"translation">>
    /\ history[2].translatedText = SentinelFailed

\* C10 as claimed: while the run of the active record has not resolved, the
\* loading indicator of that record stays on (artifacts with distinct ids).
C10_ActiveIndicatorStaysOn ==
    \A i \in 1..Len(runs) : \A k \in Positions(history, runs[i].id) :
        (Distinct(RunIds) /\ activeId = <<runs[i].id>> /\ ~Settled(runs[i])) =>
            spinnerShown(history[k])

(***************************************************************************)
(* Claims about the capture surface, under SpecCapture.                    *)
(***************************************************************************)
Last(q) == q[Len(q)]
EndedDrag == {"mouseUp:capture", "mouseUp:discard", "mouseUp:nocanvas"}

\* C11 as claimed: no artifact is ever produced from a gesture (the anchor of a
\* drag, a selected string with its tooltip) that was recorded before a switch
\* of the capture mode.
C11_ModeSwitchDiscardsGesture ==
    \A i \in 1..Len(emitted) : ~emitted[i].stale

\* C12: in box mode with the canvas painted, the step in which a button is
\* released over the page during a drag appends exactly one image artifact when
\* the width and the height of the rectangle are both at least 10, appends
\* nothing otherwise, and in both cases leaves the capture state Idle.
C12_Step ==
    (mode = "box" /\ isSelecting /\ canvas # 0 /\ lastEvent' \in EndedDrag) =>
        /\ IF dragRect(startPos, currentPos).w >= 10 /\ dragRect(startPos, currentPos).h >= 10
           THEN /\ Len(emitted') = Len(emitted) + 1
                /\ SubSeq(emitted', 1, Len(emitted)) = emitted
                /\ Last(emitted').type = "image"
           ELSE emitted' = emitted
        /\ captureState' = "Idle"

C12_BoxCaptureThreshold == [][C12_Step]_vars

\* a drag of 5 by 20 has just been discarded, after a drag that was captured
C12_Witness ==
    /\ lastEvent = "mouseUp:discard"
    /\ canvas # 0
    /\ dragRect(startPos, currentPos).w = 5
    /\ dragRect(startPos, currentPos).h = 20
    /\ Len(emitted) = 1
    /\ emitted[1].type = "image"

\* C13 as claimed: the step of the confirmation appends exactly one text artifact
\* whose payload is the string selected at that moment, a non-empty selection
\* inside the page, and leaves the capture state Idle; a selection that was
\* cleared before the confirmation produces no artifact; in text mode no other
\* step appends an artifact.
C13_Step ==
    /\ lastEvent' = "tooltipMouseDown" =>
        /\ Len(trim(selection.text)) > 0
        /\ selection.anchorInPage
        /\ Len(emitted') = Len(emitted) + 1
        /\ Last(emitted').type = "text"
        /\ Last(emitted').content = selection.text
        /\ captureState' = "Idle"
    /\ (mode = "text" /\ lastEvent' # "tooltipMouseDown") => emitted' = emitted

C13_TextCaptureConfirmed == [][C13_Step]_vars

(***************************************************************************)
(* Claims about clear, persistence and the runs, under Spec.               *)
(***************************************************************************)
JustSettled(i) == ~Settled(runs[i]) /\ Settled(runs'[i])
Arrived == Len(runs') = Len(runs) + 1

\* C14: after a clear, the step in which a run whose record was cleared settles,
\* by success or by failure, leaves the history and the persisted copy as they
\* are (empty when nothing arrived since the clear), creates no record with the
\* run's id, and the run ends in its normal resolved or failed state.
C14_Step ==
    \A i \in 1..Len(runs) :
        (cleared /\ JustSettled(i) /\ ~HasId(history, runs[i].id)) =>
            /\ history' = history
            /\ storage' = storage
            /\ ~HasId(history', runs[i].id)
            /\ history = <<>> => (history' = <<>> /\ loadHistory(storage') = <<>>)
            /\ runs'[i].pc \in {"resolved", "rejected"}

C14_ClearRacingRunIsNoOp == [][C14_Step]_vars

\* a run that was in flight over a clear has settled against the empty history
C14_Witness ==
    /\ cleared
    /\ history = <<>>
    /\ storage = JSONstringify(<<>>)
    /\ lastUpdate = "miss"
    /\ dives = <<>>
    /\ \E i \in 1..Len(runs) : runs[i].pc = "resolved"

\* a field of a record reads as a value (not undefined)
Defined(item, k) == Has(item, k) /\ ~(k \in TextKeys /\ item[k] = Undefined)
SameRecord(a, b) ==
    \A k \in DOMAIN a \cup DOMAIN b :
        /\ Defined(a, k) = Defined(b, k)
        /\ Defined(a, k) => a[k] = b[k]
SameSequence(g, h) ==
    /\ Len(g) = Len(h)
    /\ \A i \in 1..Len(h) : SameRecord(g[i], h[i])

C16_Step ==
    /\ (history # <<>> /\ history' = <<>>) => loadHistory(storage') = <<>>
    /\ (cleared' /\ ~cleared) => (history' = <<>> /\ loadHistory(storage') = <<>>)
    /\ (cleared' /\ history' = <<>>) => loadHistory(storage') = <<>>

C16_ClearThenLoadIsEmpty == [][C16_Step]_vars

\* an image artifact arrived, and a clear emptied the history and its copy
C16_Witness ==
    /\ cleared
    /\ history = <<>>
    /\ loadHistory(storage) = <<>>
    /\ Len(runs) >= 1
    /\ \E i \in 1..Len(runs) : runs[i].type = "image"

\* C18: the step of an arrival puts the pending record of the artifact at the
\* front of the history, with an empty translatedText and, as originalText, the
\* payload of a text artifact or the placeholder of an image artifact; makes its
\* id the active id; turns the loading indicator of that record on; and applies
\* no result: the run is not settled and the older records are unchanged.
C18_Step ==
    Arrived =>
        LET run == runs'[Len(runs')] IN
        /\ Len(history') = Len(history) + 1
        /\ history'[1].id = run.id
        /\ history'[1].type = run.type
        /\ history'[1].translatedText = <<>>
        /\ history'[1].originalText =
                IF run.type = "text" THEN run.content ELSE <<"Reading text from image...">>
        /\ activeId' = <<run.id>>
        /\ loading'
        /\ spinnerShown(history[1])'
        /\ ~Settled(run)
        /\ \A k \in 1..Len(history) : history'[k + 1] = history[k]

C18_PendingRecordOnArrival == [][C18_Step]_vars

\* an image artifact has just arrived in front of older records
C18_Witness ==
    /\ Len(runs) >= 1
    /\ ~Settled(runs[Len(runs)])
    /\ runs[Len(runs)].type = "image"
    /\ Len(history) >= 2
    /\ history[1].id = runs[Len(runs)].id
    /\ history[1].originalText = <<"Reading text from image...">>
    /\ spinnerShown(history[1])

\* the values the two provider operations can resolve with
TranslateValues == {translateOperation(t).value : t \in {u \in TranslateResponses : translateOperation(u).ok}}
AnalyzeValues ==
    {analyzeOperation(t).value : t \in {u \in AnalyzeResponses : analyzeOperation(u).ok}} \ {JsonNull}

\* C19: the step in which a run succeeds writes the result of the one operation
\* of its kind: the records with the id of an image run get originalText and
\* translatedText of one analysis together, those with the id of a text run get
\* the run's payload as originalText and a translation as translatedText; no
\* other field changes. An image record whose run has not settled has neither.
C19_Step ==
    /\ \A i \in 1..Len(runs) :
        (runs[i].pc # "resolved" /\ runs'[i].pc = "resolved") =>
            /\ Len(history') = Len(history)
            /\ \A k \in Positions(history, runs[i].id) :
                IF runs[i].type = "image"
                THEN \E v \in AnalyzeValues :
                        history'[k] = [originalText |-> v.originalText,
                                       translatedText |-> v.translatedText] @@ history[k]
                ELSE \E v \in TranslateValues :
                        history'[k] = [originalText |-> runs[i].content,
                                       translatedText |-> v] @@ history[k]
    /\ Distinct(RunIds) =>
        \A i \in 1..Len(runs) : \A k \in Positions(history, runs[i].id) :
            (runs[i].type = "image" /\ ~Settled(runs[i])) =>
                /\ history[k].originalText = <<"Reading text from image...">>
                /\ history[k].translatedText = <<>>

C19_OneCallByKind == [][C19_Step]_vars

\* an image run and a text run have both succeeded
C19_Witness ==
    /\ Len(history) >= 2
    /\ \E i \in 1..Len(runs) : \E k \in Positions(history, runs[i].id) :
        /\ runs[i].type = "image" /\ runs[i].pc = "resolved"
        /\ history[k].originalText = <<"source">>
        /\ history[k].translatedText = <<"target">>
    /\ \E i \in 1..Len(runs) : \E k \in Positions(history, runs[i].id) :
        /\ runs[i].type = "text" /\ runs[i].pc = "resolved"
        /\ history[k].originalText = runs[i].content
        /\ history[k].translatedText = <<"translation">>

\* the patches the update of a run can apply: lines 77-81 and 92-96
RunPatches(run) ==
    {IF r.ok THEN successPatch(run, r.value) ELSE [translatedText |-> errorMessage(r.error)] :
        r \in panelResults(run)}

\* C20: the step in which a run settles changes no record with another id, and
\* the updates of two runs in flight with different ids give the same history
\* in either order.
C20_Step ==
    /\ \A i \in 1..Len(runs) :
        JustSettled(i) =>
            /\ Len(history') = Len(history)
            /\ \A k \in 1..Len(history) : history[k].id # runs[i].id => history'[k] = history[k]
    /\ \A i, j \in 1..Len(runs) :
        (runs[i].id # runs[j].id /\ ~Settled(runs[i]) /\ ~Settled(runs[j])) =>
            \A p \in RunPatches(runs[i]), q \in RunPatches(runs[j]) :
                updateById(updateById(history, runs[i].id, p), runs[j].id, q)
                    = updateById(updateById(history, runs[j].id, q), runs[i].id, p)

C20_RunsWithDifferentIdsCommute == [][C20_Step]_vars

\* two runs with different ids were in flight together and have both settled,
\* the later one first
C20_Witness ==
    /\ Len(runs) = 2
    /\ runs[1].id # runs[2].id
    /\ Settled(runs[1]) /\ Settled(runs[2])
    /\ ~cleared
    /\ history[1].translatedText = SentinelLimit
    /\ history[2].translatedText = <<"target">>
    /\ loading = FALSE

(***************************************************************************)
(* Claims about the start of the panel, under SpecLoad.                    *)
(***************************************************************************)
\* C17 as claimed: whatever the persisted value, the start of the panel never
\* fails and the loaded history is a sequence of records; it is the empty
\* sequence when the value is absent or does not parse.
C17_LoadNeverFails ==
    /\ mounted.phase # "crashed"
    /\ mounted.phase # "start" =>
        /\ mounted.history.array
        /\ \A i \in 1..Len(mounted.history.value) : Has(mounted.history.value[i], "translatedText")
    /\ (mounted.phase = "loaded" /\ storage.kind \in {"absent", "empty", "garbage"}) =>
        mounted.history = Array(<<>>)

(***************************************************************************)
(* Claims about the deep dives, under SpecDive.                            *)
(***************************************************************************)
\* the three states of a record's translatedText: '' while pending, one of the
\* two messages of the catch block when failed, anything else when filled
pendingRecord(item) == item.translatedText = <<>>
failedRecord(item) == item.translatedText \in {SentinelFailed, SentinelLimit}
filledRecord(item) == ~pendingRecord(item) /\ ~failedRecord(item)
Awaiting(id) == {j \in 1..Len(dives) : dives[j].pc = "awaiting" /\ dives[j].id = id}

\* C21: once a record's explanation is set it is never cleared and never replaced
\* by another value while the record is in the history, whatever deep dives were
\* started or are in flight for that record or for others.
C21_Step ==
    \A k \in 1..Len(history) :
        explained(history[k]) =>
            \A n \in 1..Len(history') :
                history'[n].id = history[k].id =>
                    /\ Has(history'[n], "explanation")
                    /\ history'[n].explanation = history[k].explanation

C21_ExplanationSetOnce == [][C21_Step]_vars

\* C22: a record that bears an explanation is not offered the deep dive, so no
\* deep-dive call is started for an explained record; deep dives for different
\* records may be in flight at the same time.
C22_NotOffered ==
    \A k \in 1..Len(history) : explained(history[k]) => ~deepDiveOffered(history[k])

C22_Step ==
    Len(dives') > Len(dives) =>
        \A k \in 1..Len(history) :
            history[k].id = Last(dives').id => ~explained(history[k])

C22_ExplainedRecordOffersNoDeepDive == []C22_NotOffered /\ [][C22_Step]_vars

\* C22 witness: a record bears an explanation while deep dives for two different
\* records are in flight.
C22_Witness ==
    /\ \E k \in 1..Len(history) : explained(history[k])
    /\ \E i, j \in 1..Len(dives) :
        /\ dives[i].pc = "awaiting" /\ dives[j].pc = "awaiting"
        /\ dives[i].id # dives[j].id

\* C30: the deep dive cannot be triggered for a pending or a failed record, it can
\* be triggered for every filled record without an explanation (unless its own
\* deep dive is the one being loaded) whatever its text, and so only filled
\* records bear an explanation.
C30_NotForPendingOrFailed ==
    \A k \in 1..Len(history) :
        (pendingRecord(history[k]) \/ failedRecord(history[k])) => ~deepDiveOffered(history[k])

C30_ForEveryFilled ==
    \A k \in 1..Len(history) :
        (/\ filledRecord(history[k])
         /\ ~explained(history[k])
         /\ deepDiveLoadingId # <<history[k].id>>) => deepDiveOffered(history[k])

C30_ExplainedIsFilled ==
    \A k \in 1..Len(history) : explained(history[k]) => filledRecord(history[k])

C30_DeepDiveOnlyOnFilled ==
    C30_NotForPendingOrFailed /\ C30_ForEveryFilled /\ C30_ExplainedIsFilled

\* C31: at most one deep dive is in flight per record, and while one is in flight
\* for a record its Explain button stays disabled and its loading indicator
\* stays on, whatever deep dives for other records start or finish meanwhile.
C31_OneDeepDivePerRecord ==
    \A k \in 1..Len(history) :
        /\ Cardinality(Awaiting(history[k].id)) <= 1
        /\ Awaiting(history[k].id) # {} =>
            /\ deepDiveLoadingId = <<history[k].id>>
            /\ ~deepDiveOffered(history[k])

\* a deep dive fails in this step
DiveJustFailed(j) == dives[j].pc = "awaiting" /\ dives'[j].pc = "rejected"

\* C33: the step in which a deep dive fails leaves the history and its stored
\* copy as they were (no explanation, no sources, no sentinel), clears the
\* deep-dive loading indicator, and leaves the deep dive offered for the
\* records with the id of the call.
C33_Step ==
    \A j \in 1..Len(dives) :
        DiveJustFailed(j) =>
            /\ history' = history
            /\ storage' = storage
            /\ deepDiveLoadingId' = null
            /\ \A k \in 1..Len(history) :
                history[k].id = dives[j].id => (deepDiveOffered(history[k]))'

C33_FailedDeepDiveChangesNothing == [][C33_Step]_vars

\* C33 apart from a second call for the same record (C21): the same step, for
\* the records that bear no explanation when the call fails.
C33_StepUnexplained ==
    \A j \in 1..Len(dives) :
        DiveJustFailed(j) =>
            /\ history' = history
            /\ storage' = storage
            /\ deepDiveLoadingId' = null
            /\ \A k \in 1..Len(history) :
                (history[k].id = dives[j].id /\ ~explained(history[k])) =>
                    (deepDiveOffered(history[k]))'

C33_OfferedAgainUnlessExplained == [][C33_StepUnexplained]_vars

(***************************************************************************)
(* Claims about text selections, under SpecCapture.                        *)
(***************************************************************************)
\* a selection with one end inside the page and the other outside
SpansOutside(sel) == Len(trim(sel.text)) > 0 /\ sel.anchorInPage # sel.endsInPage
OutsideTexts == {sel.text : sel \in {s \in Selections : SpansOutside(s)}}

\* C28: in Text mode a selection with one end outside the page is ignored: it is
\* never the pending text under the tooltip and never the content of an artifact;
\* the pending text only changes to the selection found at a mouse-up.
C28_Ignored ==
    /\ tooltipShown => selectedText \notin OutsideTexts
    /\ \A i \in 1..Len(emitted) :
        emitted[i].type = "text" => emitted[i].content \notin OutsideTexts

C28_Step ==
    selectedText' # selectedText =>
        /\ selectedText' = selection.text
        /\ tooltipShown'

C28_SpanningSelectionIgnored == []C28_Ignored /\ [][C28_Step]_vars

(***************************************************************************)
(* Claims about the answers of the provider, under Spec.                   *)
(***************************************************************************)
\* the answers to the image call that hold the structured output asked for
WellFormed(text) == cleanJson(text) \in {<<JsonDoc>>, <<JsonDocBlank>>}
Malformed(text) == text # <<>> /\ ~WellFormed(text)

\* C27: the step in which an image run settles on a non-empty answer that is not
\* the structured output resolves it: the records with the run's id get the raw
\* answer as translatedText and 'OCR Output (Raw)' as originalText, never a
\* failure sentinel.
C27_Step ==
    \A i \in 1..Len(runs) :
        (/\ JustSettled(i)
         /\ runs[i].type = "image"
         /\ runs'[i].answer # <<>>
         /\ Malformed(runs'[i].answer[1])) =>
            /\ runs'[i].pc = "resolved"
            /\ \A k \in Positions(history, runs[i].id) :
                /\ history'[k].translatedText = runs'[i].answer[1]
                /\ history'[k].originalText = <<"OCR Output (Raw)">>

C27_MalformedOutputIsNotAFailure == [][C27_Step]_vars

\* C29: every run terminates when each attempt of the provider does: a run in
\* flight has an outcome to settle with, a settled run whose record is in the
\* history has left it filled or failed (translatedText not empty), and once
\* every run has settled the loading flag is off. Ids are taken distinct, so
\* that the record of a run is its own.
C29_RunsTerminate ==
    /\ \A i \in 1..Len(runs) : ~Settled(runs[i]) => panelResults(runs[i]) # {}
    /\ Distinct(RunIds) =>
        \A i \in 1..Len(runs) : \A k \in Positions(history, runs[i].id) :
            Settled(runs[i]) => ~pendingRecord(history[k])
    /\ (Len(runs) > 0 /\ AllSettled) => ~loading

(***************************************************************************)
(* Claims about the session controller, under SpecSession.                 *)
(***************************************************************************)
\* C23: after disconnect(), and until connect() is called again, the last status
\* reported is Disconnected and no handle is held: a connect call in flight at
\* the disconnect reports nothing and stores nothing later.
C23_DisconnectReleases ==
    \A k \in 1..Len(sessions) : \A d \in 1..Len(sessions[k].reports) :
        (/\ sessions[k].reports[d] = "Disconnected"
         /\ \A e \in (d + 1)..Len(sessions[k].reports) : sessions[k].reports[e] # "Connecting...") =>
            /\ Last(sessions[k].reports) = "Disconnected"
            /\ ~connected(sessions[k])

\* C24: connect() on a controller that is connecting or connected is a no-op (no
\* status reported, no live session asked of the provider, the handle kept), so
\* a controller has at most one live session, held or on its way.
C24_OneLive ==
    \A k \in 1..Len(sessions) :
        Cardinality({c \in 1..Len(sessions[k].calls) : sessions[k].calls[c] = "awaiting"})
            + (IF connected(sessions[k]) THEN 1 ELSE 0) <= 1

C24_Step ==
    \A k \in 1..Len(sessions) :
        (/\ sessions'[k].connects > sessions[k].connects
         /\ (connecting(sessions[k]) \/ connected(sessions[k]))) =>
            /\ sessions'[k].reports = sessions[k].reports
            /\ sessions'[k].calls = sessions[k].calls
            /\ sessions'[k].session = sessions[k].session

C24_ConnectIsIdempotent == []C24_OneLive /\ [][C24_Step]_vars

Outcomes == {"Connected", "Connection Failed"}
Count(q, S) == Cardinality({n \in 1..Len(q) : q[n] \in S})
Prefix(q, n) == SubSeq(q, 1, n)

\* C34: every connect() call reports Connecting... and then, when it settles,
\* exactly one outcome: Connected when the provider opened the session, Connection
\* Failed when it refused (with no key it always refuses). A settled call
\* reports nothing more, no outcome precedes its Connecting..., and the
\* observer holds the last status reported.
C34_OneOutcomePerCall ==
    \A k \in 1..Len(sessions) :
        LET obj == sessions[k] IN
        /\ Count(obj.reports, {"Connecting..."}) = Len(obj.calls)
        /\ Len(obj.calls) = obj.connects
        /\ Count(obj.reports, {"Connected"}) = Count(obj.calls, {"resolved"})
        /\ Count(obj.reports, {"Connection Failed"}) = Count(obj.calls, {"rejected"})
        /\ \A n \in 1..Len(obj.reports) :
            Count(Prefix(obj.reports, n), Outcomes) <= Count(Prefix(obj.reports, n), {"Connecting..."})
        /\ obj.reports # <<>> => status = Last(obj.reports)
        /\ ~apiKey => Count(obj.reports, {"Connected"}) = 0

C34_Step ==
    \A k \in 1..Len(sessions) :
        /\ Len(sessions'[k].reports) <= Len(sessions[k].reports) + 1
        /\ \A c \in 1..Len(sessions[k].calls) :
            sessions[k].calls[c] # "awaiting" => sessions'[k].calls[c] = sessions[k].calls[c]
        /\ (~connecting(sessions[k]) /\ sessions'[k].connects > sessions[k].connects) =>
            sessions'[k].reports = Append(sessions[k].reports, "Connecting...")
        /\ \A c \in 1..Len(sessions[k].calls) :
            (sessions[k].calls[c] = "awaiting" /\ sessions'[k].calls[c] # "awaiting") =>
                sessions'[k].reports =
                    Append(sessions[k].reports,
                           IF sessions'[k].calls[c] = "resolved" THEN "Connected" ELSE "Connection Failed")

C34_ConnectReportsOneOutcome == []C34_OneOutcomePerCall /\ [][C34_Step]_vars

\* C34 witness: a call on an idle controller failed and a later call connected
C34_Witness ==
    \E k \in 1..Len(sessions) :
        sessions[k].reports = <<"Connecting...", "Connection Failed", "Connecting...", "Connected">>

(***************************************************************************)
(* Claims about the voice assistant, under SpecAssistant.                  *)
(***************************************************************************)
\* C25: while the assistant is closed no session it created is connecting or
\* connected; while it is open exactly one session is its own, and no other is
\* connecting or connected.
C25_CloseDisconnects ==
    /\ ~isOpen => \A k \in 1..Len(sessions) : ~connecting(sessions[k]) /\ ~connected(sessions[k])
    /\ isOpen =>
        /\ liveSessionRef # null
        /\ \A k \in 1..Len(sessions) :
            <<k>> # liveSessionRef => ~connecting(sessions[k]) /\ ~connected(sessions[k])

(***************************************************************************)
(* Claims about Read Aloud, under SpecAudio.                               *)
(***************************************************************************)
Playing == {j \in 1..Len(speeches) : speeches[j].pc \in {"awaiting", "playing"}}

\* C26: at most one playback is active (from the speech request until it ends or
\* fails) and it is the one marked as playing; a call of the handler made while
\* one is active is rejected: no speech is requested and the mark is unchanged.
C26_OneActive ==
    /\ Cardinality(Playing) <= 1
    /\ \A j \in Playing : audioPlayingId = <<speeches[j].id>>

C26_Step ==
    (Len(speeches') > Len(speeches) /\ Playing # {}) =>
        /\ Last(speeches').pc = "rejected"
        /\ audioPlayingId' = audioPlayingId

C26_OnePlaybackAtATime == []C26_OneActive /\ [][C26_Step]_vars

\* C26 witness: a playback is active and a request for another record was rejected
C26_Witness ==
    \E j \in Playing : \E i \in 1..Len(speeches) :
        /\ i > j
        /\ speeches[i].pc = "rejected"
        /\ speeches[i].id # speeches[j].id
        /\ speeches[j].pc = "playing"

(***************************************************************************)
(* Claims about the capture mode, under SpecCapture.                       *)
(***************************************************************************)
\* C32: every image artifact was emitted in Box mode and every text artifact in
\* Text mode; a drag starts only in Box mode, the text becomes pending and is
\* confirmed only in Text mode, and the step that emits an artifact leaves the
\* capture mode as it was.
C32_KindMatchesMode ==
    \A i \in 1..Len(emitted) :
        /\ emitted[i].type = "image" => emitted[i].mode = "box"
        /\ emitted[i].type = "text" => emitted[i].mode = "text"

C32_Step ==
    /\ Len(emitted') > Len(emitted) =>
        /\ mode' = mode
        /\ Last(emitted').mode = mode
        /\ Last(emitted').type = "image" => (mode = "box" /\ isSelecting)
        /\ Last(emitted').type = "text" => (mode = "text" /\ showTextTooltip)
    /\ (~isSelecting /\ isSelecting') => (mode = "box" /\ mode' = "box")
    /\ (~showTextTooltip /\ showTextTooltip') => (mode = "text" /\ mode' = "text")

C32_ArtifactKindMatchesMode == []C32_KindMatchesMode /\ [][C32_Step]_vars

\* C32 witness: an image artifact and a text artifact were both emitted, with a
\* switch of the capture mode between them.
C32_Witness ==
    /\ \E i \in 1..Len(emitted) : emitted[i].type = "image" /\ emitted[i].mode = "box"
    /\ \E i \in 1..Len(emitted) : emitted[i].type = "text" /\ emitted[i].mode = "text"

====
